---------------------------- MODULE Spec2Model ----------------------------
(***************************************************************************)
(* Model of main.py: the image normalisation routine resize_image, the     *)
(* per-file pipeline process_image and the batch runner process_images /   *)
(* extract_and_process_images.                                             *)
(*                                                                         *)
(* Two specifications are given.  SpecResize explores resize_image as a    *)
(* pure function over bounded image and canvas sizes.  Spec explores one   *)
(* call of process_images: a coordinator thread walking the input tree and *)
(* the worker threads of the ThreadPoolExecutor running process_image.     *)
(***************************************************************************)
EXTENDS Integers, Naturals, Sequences, FiniteSets, TLC

(***************************************************************************)
(* Bounds of the model.                                                    *)
(***************************************************************************)
\* largest image width and height explored by SpecResize
MaxDim == 9
\* largest canvas side explored by SpecResize besides the default one
MaxCanvas == 9

\* output_size=(2500, 2500), the default canvas of resize_image
DefaultSide == 2500

(***************************************************************************)
(* IEEE-754 binary64 arithmetic, as far as resize_image uses it.           *)
(*                                                                         *)
(* Python computes img.width / img.height, new_width / aspect_ratio and    *)
(* new_height * aspect_ratio in binary64 with round-to-nearest-even, and   *)
(* int() truncates the result.  A positive double is modelled exactly as   *)
(* [m |-> mantissa, e |-> exponent], value m * 2^e with                    *)
(* 2^52 <= m < 2^53.  The mantissa does not fit TLC's 32-bit integers; it  *)
(* is kept as NL limbs in base 2^14, least significant limb first.         *)
(***************************************************************************)
Base == 2^14
NL == 5

\* limbs are written out as tuples: TLC evaluates a tuple at once
BnFromInt(n) == <<n % Base, (n \div Base) % Base, n \div (Base * Base), 0, 0>>

\* the value of a number below 2^31
BnToInt(a) == a[1] + Base * a[2] + Base * Base * a[3]

BnIsOdd(a) == a[1] % 2 = 1

DoubleLimb(lo, x) == ((2 * x) % Base) + (IF 2 * lo >= Base THEN 1 ELSE 0)

BnDouble(a) ==
  <<DoubleLimb(0, a[1]), DoubleLimb(a[1], a[2]), DoubleLimb(a[2], a[3]),
    DoubleLimb(a[3], a[4]), DoubleLimb(a[4], a[5])>>

HalfLimb(x, hi) == (x \div 2) + (IF hi % 2 = 1 THEN Base \div 2 ELSE 0)

BnHalf(a) ==
  <<HalfLimb(a[1], a[2]), HalfLimb(a[2], a[3]), HalfLimb(a[3], a[4]),
    HalfLimb(a[4], a[5]), HalfLimb(a[5], 0)>>

IncLimb(a, i) ==
  IF \A j \in 1..(i - 1) : a[j] = Base - 1 THEN (a[i] + 1) % Base ELSE a[i]

BnInc(a) ==
  <<IncLimb(a, 1), IncLimb(a, 2), IncLimb(a, 3), IncLimb(a, 4), IncLimb(a, 5)>>

RECURSIVE BnCmpFrom(_, _, _)
\* -1, 0, 1 as a < b, a = b, a > b, comparing limbs i..1
BnCmpFrom(a, b, i) ==
  IF i = 0 THEN 0
  ELSE IF a[i] < b[i] THEN -1
  ELSE IF a[i] > b[i] THEN 1
  ELSE BnCmpFrom(a, b, i - 1)

BnCmp(a, b) == BnCmpFrom(a, b, NL)

BnGeq(a, b) == BnCmp(a, b) >= 0

RECURSIVE BnBorrow(_, _, _)
\* the borrow into limb i of a - b
BnBorrow(a, b, i) ==
  IF i = 1 THEN 0
  ELSE IF a[i - 1] - BnBorrow(a, b, i - 1) < b[i - 1] THEN 1 ELSE 0

\* a - b for a >= b
SubLimb(a, b, i) == (a[i] - BnBorrow(a, b, i) - b[i] + Base) % Base

BnSub(a, b) ==
  <<SubLimb(a, b, 1), SubLimb(a, b, 2), SubLimb(a, b, 3), SubLimb(a, b, 4),
    SubLimb(a, b, 5)>>

RECURSIVE BnCarry(_, _, _)
\* the carry into limb i of a * c, c a small integer
BnCarry(a, c, i) ==
  IF i = 1 THEN 0
  ELSE (a[i - 1] * c + BnCarry(a, c, i - 1)) \div Base

MulLimb(a, c, i) == (a[i] * c + BnCarry(a, c, i)) % Base

BnMulSmall(a, c) ==
  <<MulLimb(a, c, 1), MulLimb(a, c, 2), MulLimb(a, c, 3), MulLimb(a, c, 4),
    MulLimb(a, c, 5)>>

\* 2^52 and 2^53: 52 = 3 * 14 + 10
Two52 == <<0, 0, 0, 2^10, 0>>
Two53 == <<0, 0, 0, 2^11, 0>>

\* round-to-nearest-even of a 53-bit mantissa m (exponent e) given whether
\* the discarded part is above, equal to or below one half of the last place
FRound(m, e, cmpHalf) ==
  LET up == cmpHalf > 0 \/ (cmpHalf = 0 /\ BnIsOdd(m))
      m1 == IF up THEN BnInc(m) ELSE m
  IN  IF BnGeq(m1, Two53) THEN [m |-> BnHalf(m1), e |-> e + 1]
      ELSE [m |-> m1, e |-> e]

RECURSIVE Log2Floor(_, _)
\* the largest k with b * 2^k <= a, for a >= b >= 1
Log2Floor(a, b) == IF 2 * b <= a THEN 1 + Log2Floor(a, 2 * b) ELSE 0

RECURSIVE Log2Ceil(_, _)
\* the smallest k with a * 2^k >= b, for a, b >= 1
Log2Ceil(a, b) == IF a >= b THEN 0 ELSE 1 + Log2Ceil(2 * a, b)

\* one step of the long division by the small integer d: 13 more bits of
\* the quotient, s = [m |-> quotient so far, r |-> remainder < d < 2^18]
IntDivStep(s, d) ==
  LET m2 == BnMulSmall(s.m, 2^13)
  IN  [m |-> [m2 EXCEPT ![1] = m2[1] + ((s.r * 2^13) \div d)],
       r |-> (s.r * 2^13) % d]

\* a / b for integers a, b >= 1: Python's correctly rounded true division
FDivInts(a, b) ==
  LET up == a >= b
      k == IF up THEN Log2Floor(a, b) ELSE Log2Ceil(a, b)
      n == IF up THEN a ELSE a * 2^k
      d == IF up THEN b * 2^k ELSE b
      s0 == [m |-> BnFromInt(1), r |-> n - d]
      q == IntDivStep(IntDivStep(IntDivStep(IntDivStep(s0, d), d), d), d)
      c == IF 2 * q.r > d THEN 1 ELSE IF 2 * q.r = d THEN 0 ELSE -1
  IN  FRound(q.m, (IF up THEN k ELSE -k) - 52, c)

RECURSIVE FNormalize(_, _, _, _)
\* a product p * 2^e brought down to 53 bits; guard is the last bit shifted
\* out and sticky tells whether any earlier one was set
FNormalize(p, e, guard, sticky) ==
  IF BnGeq(p, Two53)
  THEN FNormalize(BnHalf(p), e + 1, BnIsOdd(p), sticky \/ guard)
  ELSE FRound(p, e, IF guard THEN (IF sticky THEN 1 ELSE 0) ELSE -1)

\* c * x for an integer 1 <= c < 2^16 and a double x
FMulInt(c, x) == FNormalize(BnMulSmall(x.m, c), x.e, FALSE, FALSE)

Limb(a, i) == IF i >= 1 /\ i <= NL THEN a[i] ELSE 0

ShlLimb(a, i, s, t) ==
  ((Limb(a, i - s) * 2^t) % Base) + ((Limb(a, i - s - 1) * 2^t) \div Base)

\* a * 2^k
BnShl(a, k) ==
  LET s == k \div 14
      t == k % 14
  IN  <<ShlLimb(a, 1, s, t), ShlLimb(a, 2, s, t), ShlLimb(a, 3, s, t),
        ShlLimb(a, 4, s, t), ShlLimb(a, 5, s, t)>>

ShrLimb(a, i, s, t) ==
  (Limb(a, i + s) \div 2^t) + ((Limb(a, i + s + 1) % 2^t) * 2^(14 - t))

\* a \div 2^k
BnShr(a, k) ==
  LET s == k \div 14
      t == k % 14
  IN  <<ShrLimb(a, 1, s, t), ShrLimb(a, 2, s, t), ShrLimb(a, 3, s, t),
        ShrLimb(a, 4, s, t), ShrLimb(a, 5, s, t)>>

RECURSIVE BitLen(_)
BitLen(n) == IF n = 0 THEN 0 ELSE 1 + BitLen(n \div 2)

RECURSIVE MaxDigit(_, _, _, _)
\* the largest digit g in lo..hi with g * d <= r
MaxDigit(r, d, lo, hi) ==
  IF lo = hi THEN lo
  ELSE LET mid == (lo + hi + 1) \div 2
       IN  IF BnGeq(r, BnMulSmall(d, mid)) THEN MaxDigit(r, d, mid, hi)
           ELSE MaxDigit(r, d, lo, mid - 1)

\* one step of the long division by the mantissa d: `bits` more bits of the
\* quotient, s = [q |-> quotient so far, r |-> remainder < d]
DivStep(s, d, bits) ==
  LET r2 == BnMulSmall(s.r, 2^bits)
      g == MaxDigit(r2, d, 0, 2^bits - 1)
      q2 == BnMulSmall(s.q, 2^bits)
  IN  [q |-> [q2 EXCEPT ![1] = q2[1] + g], r |-> BnSub(r2, BnMulSmall(d, g))]

\* c / x for an integer 1 <= c < 2^16 and a double x
FDivInt(c, x) ==
  LET len == BitLen(c)
      j == IF BnGeq(BnShl(BnFromInt(c), 53 - len), x.m) THEN 53 - len
           ELSE 54 - len
      s0 == [q |-> BnFromInt(1), r |-> BnSub(BnShl(BnFromInt(c), j), x.m)]
      q == DivStep(DivStep(DivStep(DivStep(s0, x.m, 10), x.m, 14), x.m, 14),
                   x.m, 14)
  IN  FRound(q.q, (0 - 52) - j - x.e, BnCmp(BnDouble(q.r), x.m))

\* x > 1
FGtOne(x) == x.e > -52 \/ (x.e = -52 /\ BnCmp(x.m, Two52) > 0)

\* x rounded to the nearest integer instead
PyIntRounds(x) ==
  IF x.e >= 0 THEN BnToInt(x.m) * 2^(x.e)
  ELSE IF x.e <= -54 THEN 0
  ELSE (BnToInt(BnShr(x.m, (0 - x.e) - 1)) + 1) \div 2

\* int(x): truncation toward zero of a positive double below 2^31
PyInt(x) ==
  IF x.e >= 0 THEN BnToInt(x.m) * 2^(x.e)
  ELSE IF x.e <= -53 THEN 0
  ELSE BnToInt(BnShr(x.m, 0 - x.e))

(***************************************************************************)
(* resize_image (lines 22-35).                                             *)
(***************************************************************************)
\* lines 23-29: the scaled size of a width x height image for the canvas
\* output_size = <<canvasWidth, canvasHeight>>
resize_image(width, height, output_size) ==
  LET aspect_ratio == FDivInts(width, height)
  IN  IF FGtOne(aspect_ratio)
      THEN [new_width |-> output_size[1],
            new_height |-> PyInt(FDivInt(output_size[1], aspect_ratio))]
      ELSE [new_width |-> PyInt(FMulInt(output_size[2], aspect_ratio)),
            new_height |-> output_size[2]]

\* line 31: Image.resize raises ValueError("height and width must be > 0")
\* for a size with a dimension below 1
ResizeAccepts(size) == size.new_width >= 1 /\ size.new_height >= 1

\* line 33: the offset at which the scaled image is pasted
PasteOffset(output_size, size) ==
  <<(output_size[1] - size.new_width) \div 2,
    (output_size[2] - size.new_height) \div 2>>

(***************************************************************************)
(* Strings are sequences of characters, so that lower() and endswith()     *)
(* are computed and not assumed.                                           *)
(***************************************************************************)
UpperCase == <<"A", "B", "C", "D", "E", "F", "G", "H", "I", "J", "K", "L", "M",
               "N", "O", "P", "Q", "R", "S", "T", "U", "V", "W", "X", "Y", "Z">>
LowerCase == <<"a", "b", "c", "d", "e", "f", "g", "h", "i", "j", "k", "l", "m",
               "n", "o", "p", "q", "r", "s", "t", "u", "v", "w", "x", "y", "z">>

LowerChar(c) ==
  IF \E i \in DOMAIN UpperCase : UpperCase[i] = c
  THEN LowerCase[CHOOSE i \in DOMAIN UpperCase : UpperCase[i] = c]
  ELSE c

\* str.lower()
Lower(str) == [i \in DOMAIN str |-> LowerChar(str[i])]

\* str.endswith(suffix)
EndsWith(str, suffix) ==
  /\ Len(suffix) <= Len(str)
  /\ SubSeq(str, Len(str) - Len(suffix) + 1, Len(str)) = suffix

DotZip == <<".", "z", "i", "p">>
DotRar == <<".", "r", "a", "r">>

(***************************************************************************)
(* The file system and the inputs of one process_images call.              *)
(***************************************************************************)
\* subdirectories of the input directory (or of the archive); 0 is its root
MaxSubdirs == 1
\* files in the input tree
MaxFiles == 2

Dirs == 0..MaxSubdirs
\* an output folder outside the input tree
OutExternal == 0 - 1
Locs == Dirs \cup {OutExternal}
Basenames == {"a", "b"}
\* the order in which a directory listing yields its files
NameOrder == <<"a", "b">>
\* where output_folder may lie: outside the input tree, the input directory
\* itself, or its first subdirectory
OutLocs == {OutExternal} \cup {d \in Dirs : d <= 1}
Paths == Locs \X Basenames
TreePaths == Dirs \X Basenames

Absent == "absent"
\* "corrupt": not an image; "img": a 4 x 3 image; "wide": a 5001 x 1 image;
\* "canvas": an image written by process_image; "partial": a file whose save
\* failed half-way
InputContents == {"corrupt", "img", "wide"}
ImageContents == {"img", "wide", "canvas"}

Dims(content) ==
  IF content = "img" THEN <<4, 3>>
  ELSE IF content = "wide" THEN <<5001, 1>>
  ELSE <<DefaultSide, DefaultSide>>

\* line 39: Image.open succeeds on the file
Decodable(content) == content \in ImageContents

\* line 40 for each kind of image, with process_image's default canvas
ScaledSizes ==
  {<<c, resize_image(Dims(c)[1], Dims(c)[2], <<DefaultSide, DefaultSide>>)>> :
     c \in ImageContents}

ScaledSize(content) == (CHOOSE t \in ScaledSizes : t[1] = content)[2]

InZip == <<"i", "n", ".", "z", "i", "p">>
InputNames == {<<"i", "n">>, InZip, <<"i", "n", ".", "R", "A", "R">>}
\* an exact match, a match after lower() and no match
Formats == {<<"j", "p", "g">>, <<"P", "N", "G">>, <<"b", "m", "p">>}

EmptyTree == [p \in TreePaths |-> Absent]
Trees ==
  {t \in [TreePaths -> InputContents \cup {Absent}] :
     Cardinality({p \in TreePaths : t[p] # Absent}) <= MaxFiles}

VARIABLES
  rz,                \* the resize_image call explored by SpecResize
  input,             \* input_path: its name, what it is, the files under it
  fmt,               \* output_format
  outLoc,            \* where output_folder lies
  fs,                \* the files of the input tree and of output_folder
  outMade,           \* os.makedirs(output_folder) has run
  pc,                \* where the coordinator (process_images) is
  err,               \* the exception process_images raised
  zipOpen,           \* the ZipFile is open
  tempDir,           \* the TemporaryDirectory: "none", "exists", "removed"
  visited,           \* the directories os.walk has yielded
  cur,               \* the directory whose files are being processed
  toSubmit,          \* image_files not yet submitted
  futures,           \* the futures of the current executor, in order
  waitIdx,           \* the future whose result() is awaited next
  task,              \* each process_image call: its state and outcome
  processed_images,  \* the result list
  pools,             \* ThreadPoolExecutors created so far
  poolAlive,         \* an executor is inside its with block
  outWritten         \* the output names a save has opened for writing

batchVars ==
  <<input, fmt, outLoc, fs, outMade, pc, err, zipOpen, tempDir, visited, cur,
    toSubmit, futures, waitIdx, task, processed_images, pools, poolAlive,
    outWritten>>
vars == <<rz, batchVars>>

NoDir == 0 - 2
NoTask == [st |-> "none", reason |-> ""]
RzIdle == [pc |-> "idle", w |-> 1, h |-> 1, cw |-> 1, ch |-> 1, nw |-> 0,
           nh |-> 0, ox |-> 0, oy |-> 0]

\* the test of line 72 without os.path.isfile
IsArchiveNoIsfile(inp) ==
  EndsWith(Lower(inp.name), DotZip) \/ EndsWith(Lower(inp.name), DotRar)

\* line 72: os.path.isfile(input_path) and
\* input_path.lower().endswith(('.zip', '.rar'))
IsArchive(inp) ==
  /\ inp.kind = "file"
  /\ EndsWith(Lower(inp.name), DotZip) \/ EndsWith(Lower(inp.name), DotRar)

\* line 75: os.path.isdir(input_path)
IsDir(inp) == inp.kind = "dir"

\* the inputs whose tree is walked: a directory, or an archive that opens
Walkable(inp) == IsDir(inp) \/ (IsArchive(inp) /\ inp.zipOk)

\* The name of the input only decides its classification (line 72), so the
\* batches explored over every tree are those of the directory "in" and of
\* the archive "in.zip"; every other name and kind comes with an empty tree
Inputs ==
  {i \in [name : InputNames, kind : {"file", "dir", "none"}, zipOk : BOOLEAN,
          tree : Trees] :
     /\ i.zipOk => (i.kind = "file" /\ IsArchive(i))
     /\ i.tree # EmptyTree =>
          \/ i.kind = "dir" /\ i.name = <<"i", "n">>
          \/ i.kind = "file" /\ i.zipOk /\ i.name = InZip}

BatchIdle ==
  /\ outMade = FALSE
  /\ err = "none"
  /\ zipOpen = FALSE
  /\ tempDir = "none"
  /\ visited = {}
  /\ cur = NoDir
  /\ toSubmit = <<>>
  /\ futures = <<>>
  /\ waitIdx = 1
  /\ task = [p \in TreePaths |-> NoTask]
  /\ processed_images = <<>>
  /\ pools = 0
  /\ poolAlive = FALSE
  /\ outWritten = {}

\* the state in which process_images is called
Init ==
  /\ rz = RzIdle
  /\ input \in Inputs
  /\ fmt \in Formats
  /\ outLoc \in (IF IsDir(input) THEN OutLocs ELSE {OutExternal})
  /\ fs = [p \in Paths |->
             IF IsDir(input) /\ p[1] \in Dirs THEN input.tree[p] ELSE Absent]
  /\ pc = "call"
  /\ BatchIdle

(***************************************************************************)
(* The coordinator: process_images and extract_and_process_images.         *)
(***************************************************************************)
walkVars == <<visited, cur, toSubmit, futures, waitIdx, pools, poolAlive>>
callVars == <<rz, input, fmt, outLoc>>

\* lines 70-71: os.makedirs(output_folder, exist_ok=True)
MakeDirs ==
  /\ pc = "call"
  /\ outMade' = TRUE
  /\ pc' = "classify"
  /\ UNCHANGED <<callVars, fs, err, zipOpen, tempDir, walkVars, task,
                 processed_images, outWritten>>

\* line 72: the input is an archive
ClassifyArchive ==
  /\ pc = "classify"
  /\ IsArchive(input)
  /\ pc' = "open_zip"
  /\ UNCHANGED <<callVars, fs, outMade, err, zipOpen, tempDir, walkVars, task,
                 processed_images, outWritten>>

\* line 75: the input is a directory
ClassifyDir ==
  /\ pc = "classify"
  /\ ~IsArchive(input)
  /\ IsDir(input)
  /\ pc' = "walk"
  /\ UNCHANGED <<callVars, fs, outMade, err, zipOpen, tempDir, walkVars, task,
                 processed_images, outWritten>>

\* lines 84-85: raise ValueError("La entrada debe ser ...")
RaiseInvalidInput ==
  /\ pc = "classify"
  /\ ~IsArchive(input)
  /\ ~IsDir(input)
  /\ pc' = "raised"
  /\ err' = "invalid_input"
  /\ UNCHANGED <<callVars, fs, outMade, zipOpen, tempDir, walkVars, task,
                 processed_images, outWritten>>

\* line 73: zipfile.ZipFile(input_path, 'r') opens the archive
OpenZip ==
  /\ pc = "open_zip"
  /\ input.zipOk
  /\ zipOpen' = TRUE
  /\ pc' = "enter_temp"
  /\ UNCHANGED <<callVars, fs, outMade, err, tempDir, walkVars, task,
                 processed_images, outWritten>>

\* line 73: the file is no zip archive (a .rar file, say): BadZipFile
OpenZipFails ==
  /\ pc = "open_zip"
  /\ ~input.zipOk
  /\ pc' = "raised"
  /\ err' = "bad_zip"
  /\ UNCHANGED <<callVars, fs, outMade, zipOpen, tempDir, walkVars, task,
                 processed_images, outWritten>>

\* lines 56-57: tempfile.TemporaryDirectory() is entered
EnterTempDir ==
  /\ pc = "enter_temp"
  /\ tempDir' = "exists"
  /\ pc' = "extract"
  /\ UNCHANGED <<callVars, fs, outMade, err, zipOpen, walkVars, task,
                 processed_images, outWritten>>

\* line 58: zip_file.extractall(temp_dir)
ExtractAll ==
  /\ pc = "extract"
  /\ fs' = [p \in Paths |-> IF p[1] \in Dirs THEN input.tree[p] ELSE fs[p]]
  /\ pc' = "walk"
  /\ UNCHANGED <<callVars, outMade, err, zipOpen, tempDir, walkVars, task,
                 processed_images, outWritten>>

\* line 58: extractall raises (disk full, a damaged entry); what it had
\* extracted so far stays in the temporary directory
ExtractAllFails ==
  /\ pc = "extract"
  /\ \E done \in SUBSET {p \in TreePaths : input.tree[p] # Absent} :
       fs' = [p \in Paths |-> IF p \in done THEN input.tree[p] ELSE fs[p]]
  /\ err' = "extract"
  /\ pc' = "exit_temp"
  /\ UNCHANGED <<callVars, outMade, zipOpen, tempDir, walkVars, task,
                 processed_images, outWritten>>

\* the files os.walk lists for directory d, as a list
ListDir(d) == SelectSeq(NameOrder, LAMBDA n : fs[<<d, n>>] # Absent)

\* a loop that goes on to the results after its first submission
SubmitLoopDoneEarly(remaining) == TRUE

\* lines 62-63 and 79-80: the list comprehension has submitted every file
\* of image_files, and only then the loop over the futures begins
SubmitLoopDone(remaining) == remaining = <<>>

\* lines 59-61 and 76-78: os.walk yields the next directory, top-down (the
\* root first, then its subdirectories in the order the listing gives),
\* image_files is built and a ThreadPoolExecutor is created
WalkNext ==
  /\ pc = "walk"
  /\ \E d \in Dirs \ visited :
       /\ 0 \notin visited => d = 0
       /\ visited' = visited \cup {d}
       /\ cur' = d
       /\ toSubmit' = ListDir(d)
       /\ pc' = IF SubmitLoopDone(ListDir(d)) THEN "collect" ELSE "submit"
  /\ futures' = <<>>
  /\ waitIdx' = 1
  /\ pools' = pools + 1
  /\ poolAlive' = TRUE
  /\ UNCHANGED <<callVars, fs, outMade, err, zipOpen, tempDir, task,
                 processed_images, outWritten>>

\* lines 62 and 79: executor.submit(process_image, img, ...) for the next file
Submit ==
  /\ pc = "submit"
  /\ toSubmit # <<>>
  /\ task' = [task EXCEPT ![<<cur, Head(toSubmit)>>] =
                [st |-> "queued", reason |-> ""]]
  /\ futures' = Append(futures, Head(toSubmit))
  /\ toSubmit' = Tail(toSubmit)
  /\ pc' = IF SubmitLoopDone(Tail(toSubmit)) THEN "collect" ELSE "submit"
  /\ UNCHANGED <<callVars, fs, outMade, err, zipOpen, tempDir, visited,
                 cur, waitIdx, pools, poolAlive, processed_images, outWritten>>

\* a result taken without waiting for the task
FutureDoneNoWait(p) == TRUE

\* the future of the task for file p is done: future.result() returns, and
\* the executor's shutdown(wait=True) goes on
FutureDone(p) == task[p].st \in {"ok", "failed"}

\* a result appended without the test of lines 65 and 82
CollectResultAlways(list, p) == Append(list, p[2])

\* lines 64-66 and 81-83: result = future.result(); if result: append.  The
\* result is output_folder/basename for a success and None for a failure
CollectResult(list, p) ==
  IF task[p].st = "ok" THEN Append(list, p[2]) ELSE list

\* lines 63-66 and 80-83: the next future's result is taken
Collect ==
  /\ pc = "collect"
  /\ waitIdx <= Len(futures)
  /\ FutureDone(<<cur, futures[waitIdx]>>)
  /\ processed_images' =
       CollectResult(processed_images, <<cur, futures[waitIdx]>>)
  /\ waitIdx' = waitIdx + 1
  /\ UNCHANGED <<callVars, fs, outMade, pc, err, zipOpen, tempDir, visited,
                 cur, toSubmit, futures, pools, poolAlive, task, outWritten>>

\* lines 61 and 78: the with block of the executor ends: shutdown(wait=True)
ExitPool ==
  /\ pc = "collect"
  /\ waitIdx > Len(futures)
  /\ \A i \in 1..Len(futures) : FutureDone(<<cur, futures[i]>>)
  /\ poolAlive' = FALSE
  /\ pc' = "walk"
  /\ UNCHANGED <<callVars, fs, outMade, err, zipOpen, tempDir, visited, cur,
                 toSubmit, futures, waitIdx, pools, task, processed_images,
                 outWritten>>

\* lines 76 and 86: os.walk is exhausted over a directory input: return
ReturnFromDir ==
  /\ pc = "walk"
  /\ visited = Dirs
  /\ IsDir(input) /\ ~IsArchive(input)
  /\ pc' = "returned"
  /\ UNCHANGED <<callVars, fs, outMade, err, zipOpen, tempDir, walkVars, task,
                 processed_images, outWritten>>

\* line 59: os.walk is exhausted over the extracted archive
WalkDoneArchive ==
  /\ pc = "walk"
  /\ visited = Dirs
  /\ IsArchive(input)
  /\ pc' = "exit_temp"
  /\ UNCHANGED <<callVars, fs, outMade, err, zipOpen, tempDir, walkVars, task,
                 processed_images, outWritten>>

\* a temporary directory removed on the normal path only
TempDirLeakedOnError(raising) == IF raising THEN "exists" ELSE "removed"

\* line 57: TemporaryDirectory.__exit__ removes the directory, whether the
\* block ended normally or by an exception
TempDirAfterExit(raising) == "removed"

\* line 57: the with block of the temporary directory ends
ExitTempDir ==
  /\ pc = "exit_temp"
  /\ tempDir' = TempDirAfterExit(err # "none")
  /\ fs' = [p \in Paths |->
              IF p[1] \in Dirs /\ tempDir' = "removed" THEN Absent ELSE fs[p]]
  /\ pc' = "exit_zip"
  /\ UNCHANGED <<callVars, outMade, err, zipOpen, walkVars, task,
                 processed_images, outWritten>>

\* lines 73-74 and 86: the with block of the ZipFile ends; process_images
\* returns the list, or the exception goes on to the caller
ExitZipFile ==
  /\ pc = "exit_zip"
  /\ zipOpen' = FALSE
  /\ pc' = IF err = "none" THEN "returned" ELSE "raised"
  /\ UNCHANGED <<callVars, fs, outMade, err, tempDir, walkVars, task,
                 processed_images, outWritten>>

(***************************************************************************)
(* The workers: process_image (lines 37-53), one call per submitted file.  *)
(* The executor's default max_workers, min(32, cpu_count + 4), is above    *)
(* the number of files of a directory here, so every submitted task may    *)
(* run at once.                                                            *)
(***************************************************************************)
coordVars == <<outMade, pc, err, zipOpen, tempDir, walkVars,
               processed_images>>

Failed(reason) == [st |-> "failed", reason |-> reason]

\* line 41: output_folder / basename(original_name)
OutPath(p) == <<outLoc, p[2]>>

JPG == <<"j", "p", "g">>
PNG == <<"p", "n", "g">>
WEBP == <<"w", "e", "b", "p">>

\* a dispatch whose else branch encodes JPEG
SaveFormatDefaultsToJpeg(format) ==
  IF Lower(format) = PNG THEN "PNG"
  ELSE IF Lower(format) = WEBP THEN "WEBP"
  ELSE "JPEG"

\* lines 42-49: the encoder output_format selects, "none" for the else branch
SaveFormat(format) ==
  IF Lower(format) = JPG THEN "JPEG"
  ELSE IF Lower(format) = PNG THEN "PNG"
  ELSE IF Lower(format) = WEBP THEN "WEBP"
  ELSE "none"

\* lines 39-40: Image.open and resize_image; lines 51-53 on a failure
TaskOpenResize(p) ==
  /\ task[p].st = "queued"
  /\ task' = [task EXCEPT ![p] =
                IF ~Decodable(fs[p]) THEN Failed("decode")
                ELSE IF ~ResizeAccepts(ScaledSize(fs[p])) THEN Failed("resize")
                ELSE [st |-> "resized", reason |-> ""]]
  /\ UNCHANGED <<callVars, fs, coordVars, outWritten>>

\* lines 48-49 and 51-53: raise ValueError("Formato no soportado"), caught
TaskUnsupportedFormat(p) ==
  /\ task[p].st = "resized"
  /\ SaveFormat(fmt) = "none"
  /\ task' = [task EXCEPT ![p] = Failed("format")]
  /\ UNCHANGED <<callVars, fs, coordVars, outWritten>>

\* lines 42-47: img_resized.save(output_path, ...) opens the output file
TaskBeginSave(p) ==
  /\ task[p].st = "resized"
  /\ SaveFormat(fmt) # "none"
  /\ task' = [task EXCEPT ![p] = [st |-> "writing", reason |-> ""]]
  /\ fs' = [fs EXCEPT ![OutPath(p)] = "partial"]
  /\ outWritten' = outWritten \cup {p[2]}
  /\ UNCHANGED <<callVars, coordVars>>

\* lines 42-50: the save completes and output_path is returned
TaskSaveDone(p) ==
  /\ task[p].st = "writing"
  /\ task' = [task EXCEPT ![p] = [st |-> "ok", reason |-> ""]]
  /\ fs' = [fs EXCEPT ![OutPath(p)] = "canvas"]
  /\ UNCHANGED <<callVars, coordVars, outWritten>>

\* lines 42-47 and 51-53: the save raises (disk full, permission denied)
TaskSaveFails(p) ==
  /\ task[p].st = "writing"
  /\ task' = [task EXCEPT ![p] = Failed("write")]
  /\ UNCHANGED <<callVars, fs, coordVars, outWritten>>

Worker ==
  \E p \in TreePaths :
     \/ TaskOpenResize(p)
     \/ TaskUnsupportedFormat(p)
     \/ TaskBeginSave(p)
     \/ TaskSaveDone(p)
     \/ TaskSaveFails(p)

Next ==
  \/ MakeDirs
  \/ ClassifyArchive
  \/ ClassifyDir
  \/ RaiseInvalidInput
  \/ OpenZip
  \/ OpenZipFails
  \/ EnterTempDir
  \/ ExtractAll
  \/ ExtractAllFails
  \/ WalkNext
  \/ Submit
  \/ Collect
  \/ ExitPool
  \/ ReturnFromDir
  \/ WalkDoneArchive
  \/ ExitTempDir
  \/ ExitZipFile
  \/ Worker

Spec == Init /\ [][Next]_vars

(***************************************************************************)
(* resize_image on its own, over bounded image and canvas sizes.           *)
(***************************************************************************)
CanvasSides == (1..MaxCanvas) \cup {DefaultSide}

ResizeInit ==
  /\ rz \in [pc : {"call"}, w : 1..MaxDim, h : 1..MaxDim, cw : CanvasSides,
             ch : CanvasSides, nw : {0}, nh : {0}, ox : {0}, oy : {0}]
  /\ input = [name |-> <<"i", "n">>, kind |-> "none", zipOk |-> FALSE,
              tree |-> EmptyTree]
  /\ fmt = JPG
  /\ outLoc = OutExternal
  /\ fs = [p \in Paths |-> Absent]
  /\ pc = "off"
  /\ BatchIdle

\* lines 23-29: the scaled size is computed
ResizeScale ==
  /\ rz.pc = "call"
  /\ LET size == resize_image(rz.w, rz.h, <<rz.cw, rz.ch>>)
     IN  rz' = [rz EXCEPT !.pc = "scaled", !.nw = size.new_width,
                          !.nh = size.new_height]
  /\ UNCHANGED batchVars

\* lines 31-35: the image is scaled and pasted, centred, on the canvas
ResizePaste ==
  /\ rz.pc = "scaled"
  /\ ResizeAccepts([new_width |-> rz.nw, new_height |-> rz.nh])
  /\ LET offset == PasteOffset(<<rz.cw, rz.ch>>,
                               [new_width |-> rz.nw, new_height |-> rz.nh])
     IN  rz' = [rz EXCEPT !.pc = "pasted", !.ox = offset[1], !.oy = offset[2]]
  /\ UNCHANGED batchVars

\* line 31: img.resize raises ValueError
ResizeRaises ==
  /\ rz.pc = "scaled"
  /\ ~ResizeAccepts([new_width |-> rz.nw, new_height |-> rz.nh])
  /\ rz' = [rz EXCEPT !.pc = "error"]
  /\ UNCHANGED batchVars

ResizeNext == ResizeScale \/ ResizePaste \/ ResizeRaises

SpecResize == ResizeInit /\ [][ResizeNext]_vars

(***************************************************************************)
(* The claims.                                                             *)
(***************************************************************************)
Ended == pc \in {"returned", "raised"}
Submitted(p) == task[p].st # "none"
Finished(p) == task[p].st \in {"ok", "failed"}
InFlight(p) == task[p].st \in {"queued", "resized", "writing"}
Count(list, n) == Cardinality({i \in DOMAIN list : list[i] = n})
\* the files under the input when process_images is called
InputFiles == {p \in TreePaths : input.tree[p] # Absent}
\* two files with one basename, hence one output path
Colliding(p, q) == p # q /\ p[2] = q[2]
Unsupported == Lower(fmt) \notin {JPG, PNG, WEBP}
InvalidInput ==
  /\ input.kind # "dir"
  /\ ~(/\ input.kind = "file"
       /\ \/ EndsWith(Lower(input.name), DotZip)
          \/ EndsWith(Lower(input.name), DotRar))
\* why process_image fails on a file when the format is unsupported
ExpectedReason(content) ==
  IF ~Decodable(content) THEN "decode"
  ELSE IF ~ResizeAccepts(ScaledSize(content)) THEN "resize"
  ELSE "format"
Scaled == rz.pc \in {"scaled", "pasted", "error"}

\* C1: process_images raises only before any task exists, never because a
\* task failed; when it returns, every file of the batch has been processed
\* to its end and the list holds exactly one entry per successful task and
\* none for a failed one.
C1_BatchSurvivesTaskFailures ==
  /\ pc = "raised" => \A p \in TreePaths : ~Submitted(p)
  /\ pc = "returned" =>
       /\ \A p \in TreePaths : Submitted(p) => Finished(p)
       /\ \A p \in InputFiles : Finished(p)
       /\ \A n \in Basenames :
            Count(processed_images, n) =
              Cardinality({p \in TreePaths : task[p].st = "ok" /\ p[2] = n})

\* a batch has returned with a failed task and a successful one
C1_MixedBatchReturned ==
  /\ pc = "returned"
  /\ \E p, q \in TreePaths : task[p].st = "failed" /\ task[q].st = "ok"
  /\ processed_images # <<>>

\* C2: once process_images has ended, by return or by exception, the
\* temporary extraction directory does not exist and nothing is left in it;
\* it exists only while the invocation is inside its with block.
C2_TempDirRemoved ==
  /\ Ended => tempDir # "exists"
  /\ (Ended /\ tempDir = "removed") => \A p \in TreePaths : fs[p] = Absent
  /\ tempDir = "exists" =>
       pc \in {"extract", "walk", "submit", "collect", "exit_temp"}

\* the extraction failed, the exception reached the caller and the
\* temporary directory is gone
C2_RaisedAfterExtractFailure ==
  pc = "raised" /\ err = "extract" /\ tempDir = "removed"

\* C3: for an input that is neither an archive file nor a directory,
\* process_images ends only by the invalid-input error, and up to then no
\* pool was created, no task submitted, no temporary directory made and no
\* output file written.
C3_InvalidInputFailsFirst ==
  InvalidInput =>
    /\ pc \in {"call", "classify", "raised"}
    /\ pc = "raised" => err = "invalid_input"
    /\ pools = 0 /\ ~poolAlive /\ futures = <<>>
    /\ \A p \in TreePaths : ~Submitted(p)
    /\ tempDir = "none" /\ ~zipOpen
    /\ outWritten = {}
    /\ \A p \in Paths : fs[p] = Absent

\* the invalid-input error has been raised
C3_InvalidInputRaised == pc = "raised" /\ err = "invalid_input" /\ outMade

\* C4 as claimed: with an unsupported format every task of a returned batch
\* has failed with the unsupported-format reason, nothing was written and
\* the list is empty.
C4_AllFailWithFormatReason ==
  (Unsupported /\ pc = "returned") =>
    /\ \A p \in InputFiles : task[p] = Failed("format")
    /\ outWritten = {}
    /\ processed_images = <<>>

\* C4 as amended: with an unsupported format no task ever writes or
\* succeeds; a task fails with the unsupported-format reason if its file
\* decodes and resizes, and with the decode or resize error otherwise; the
\* output folder is left as it was; a batch whose tree was walked returns
\* the empty list with all its tasks failed, and raises only if the
\* extraction of the archive failed.
C4_AllFailNothingWritten ==
  Unsupported =>
    /\ outWritten = {}
    /\ \A n \in Basenames :
         fs[<<outLoc, n>>] =
           (IF outLoc \in Dirs THEN input.tree[<<outLoc, n>>] ELSE Absent)
    /\ \A p \in TreePaths :
         /\ task[p].st \in {"none", "queued", "resized", "failed"}
         /\ task[p].st = "failed" =>
              task[p].reason = ExpectedReason(input.tree[p])
    /\ pc = "returned" =>
         /\ processed_images = <<>>
         /\ \A p \in InputFiles : task[p].st = "failed"
    /\ (Walkable(input) /\ pc = "raised") => err = "extract"

\* a batch with an unsupported format has returned after one task failed
\* for the format and another for its file
C4_MixedReasonsReturned ==
  /\ Unsupported
  /\ pc = "returned"
  /\ \E p, q \in TreePaths :
       task[p] = Failed("format") /\ task[q] = Failed("decode")

\* C6 as claimed: when the coordinator waits for results, a single pool has
\* been created and every file of the batch has been submitted to it.
C6_AllSubmittedBeforeAnyWait ==
  (pc = "collect" /\ waitIdx <= Len(futures)) =>
    /\ pools = 1
    /\ \A p \in InputFiles : Submitted(p)

\* C6 as amended: when the coordinator waits for results, every file of the
\* directory being processed has been submitted; one pool is created per
\* walked directory and joined before the next directory is walked, so the
\* tasks in flight always belong to the current directory alone.
C6_SubmittedPerDirectory ==
  /\ pc = "collect" =>
       /\ toSubmit = <<>>
       /\ \A n \in Basenames :
            fs[<<cur, n>>] # Absent => Submitted(<<cur, n>>)
  /\ \A p \in TreePaths : InFlight(p) => (p[1] = cur /\ poolAlive)
  /\ pools = Cardinality(visited)
  /\ poolAlive => pc \in {"submit", "collect"}

\* the coordinator waits on a task of a second directory after the tasks of
\* an earlier directory have finished
C6_WaitingInSecondDirectory ==
  /\ pc = "collect"
  /\ pools >= 2
  /\ \E p, q \in TreePaths :
       p[1] # cur /\ Finished(p) /\ q[1] = cur /\ InFlight(q)

\* C7 as claimed: nothing in the batch runner orders two tasks that share a
\* basename: the coordinator never sits at its join with one of them
\* unfinished while the other has not been submitted.
C7_NothingOrdersCollidingTasks ==
  \A p, q \in InputFiles :
     Colliding(p, q) => ~(pc = "collect" /\ InFlight(p) /\ ~Submitted(q))

\* C7 as amended: two tasks that share a basename write the same output
\* path but are never in flight together: the one of the directory walked
\* later is submitted only after the other has finished.
C7_CollidingTasksNeverConcurrent ==
  \A p, q \in TreePaths :
     Colliding(p, q) =>
       /\ ~(InFlight(p) /\ InFlight(q))
       /\ (InFlight(p) /\ Submitted(q)) => Finished(q)

\* the second of two colliding tasks overwrites the output of the first
C7_SecondWriterAfterFirst ==
  \E p, q \in TreePaths :
     /\ Colliding(p, q)
     /\ task[p].st = "ok"
     /\ task[q].st = "writing"
     /\ fs[OutPath(q)] = "partial"

\* C8: for a directory input, process_image is invoked for the files under
\* the input directory at the call and for no other file, and once the
\* batch has returned each of them has been processed.
C8_OnlyInitialFilesProcessed ==
  (IsDir(input) /\ pc # "off") =>
    /\ \A p \in TreePaths : Submitted(p) => p \in InputFiles
    /\ pc = "returned" => \A p \in InputFiles : Finished(p)

\* C5: the scaled size fits the canvas: the driving side equals the canvas
\* side and the other one does not exceed its canvas side.
C5_ScaledSizeFitsCanvas ==
  Scaled =>
    IF rz.w > rz.h THEN rz.nw = rz.cw /\ rz.nh <= rz.ch
    ELSE rz.nh = rz.ch /\ rz.nw <= rz.cw

\* C9: both scaled dimensions are at least 1 and the resize never fails.
C9_ScaledSizePositive ==
  Scaled => (rz.nw >= 1 /\ rz.nh >= 1 /\ rz.pc # "error")

\* n / d rounded to the nearest integer, ties to even, as round() does
RoundDiv(n, d) ==
  LET q == n \div d
      r == n % d
  IN  IF 2 * r > d \/ (2 * r = d /\ q % 2 = 1) THEN q + 1 ELSE q

\* C10 as claimed: the non-driving scaled dimension is the exact quotient
\* rounded to the nearest integer.
C10_NonDrivingSideRounded ==
  Scaled =>
    IF rz.w > rz.h THEN rz.nh = RoundDiv(rz.cw * rz.h, rz.w)
    ELSE rz.nw = RoundDiv(rz.ch * rz.w, rz.h)

\* C10 as amended: the non-driving scaled dimension is the double-precision
\* quotient truncated by int(): it never exceeds the exact quotient and is
\* less than 1 below it, or exactly 1 below it when the exact quotient is
\* an integer that the floating-point result falls short of.
C10_NonDrivingSideTruncated ==
  Scaled =>
    IF rz.w > rz.h
    THEN /\ rz.nw = rz.cw
         /\ rz.nh * rz.w <= rz.cw * rz.h
         /\ rz.cw * rz.h <= (rz.nh + 1) * rz.w
    ELSE /\ rz.nh = rz.ch
         /\ rz.nw * rz.h <= rz.ch * rz.w
         /\ rz.ch * rz.w <= (rz.nw + 1) * rz.h

\* the exact quotient is an integer and the scaled height is one below it
C10_TruncatedBelowExactInteger ==
  /\ rz.pc = "scaled"
  /\ rz.w > rz.h
  /\ (rz.cw * rz.h) % rz.w = 0
  /\ rz.nh = ((rz.cw * rz.h) \div rz.w) - 1

=============================================================================
